---- MODULE Spec2Model ----
(***************************************************************************)
(* conswol: build-execution state machine, build executor threads and the  *)
(* selection cursor of src/main.rs, with the diagnostic extraction of      *)
(* read_compiler_messages.                                                 *)
(*                                                                         *)
(* Text is modelled as a sequence of tokens (each token stands for a run   *)
(* of single-byte characters); offsets are 0-based token offsets and       *)
(* slices are half-open, as the byte offsets of the source are.            *)
(***************************************************************************)
EXTENDS Integers, Sequences, FiniteSets, TLC

\* ---------------------------------------------------------------- bounds
MaxQueue == 1        \* keys buffered in key_rx at once
MaxExecs == 2        \* executor threads existing at once
MaxCursor == 2       \* |last_selection_idx| the key listener may drive it to

\* ------------------------------------------------------- Option<T> values
None == <<>>
Some(x) == <<x>>
IsSome(o) == Len(o) = 1
Unwrap(o) == o[1]

\* --------------------------------------------------------------- BuildState
NoBuild == [tag |-> "NoBuild"]
InProgress == [tag |-> "InProgress"]
InvocationFailed == [tag |-> "InvocationFailed"]
Finished(build_results) == [tag |-> "Finished", results |-> build_results]
BuildResults(code, msgs) == [ret_code |-> code, messages |-> msgs]

IsTerminal(bs) == bs.tag \in {"InvocationFailed", "Finished"}

\* ------------------------------------------------------------------ text
BAD == "<0xFF>"      \* a byte that is not valid UTF-8
Digits == {"3"}
DigitVal(tok) == CASE tok = "3" -> 3

\* str::to_lowercase, token by token
LowerTok(tok) ==
    CASE tok = "Error" -> "error"
      [] tok = "ERR" -> "err"
      [] OTHER -> tok
ToLowercase(text) == [i \in 1..Len(text) |-> LowerTok(text[i])]

\* &s[a .. b]
Slice(s, a, b) == SubSeq(s, a + 1, b)

\* String::from_utf8 / str::from_utf8: Err when a byte is not valid UTF-8
FromUtf8(bytes) ==
    IF \E i \in 1..Len(bytes) : bytes[i] = BAD THEN None ELSE Some(bytes)

\* str::parse::<u32>().ok()
RECURSIVE DecimalValue(_)
DecimalValue(text) ==
    IF Len(text) = 0 THEN 0
    ELSE 10 * DecimalValue(SubSeq(text, 1, Len(text) - 1)) + DigitVal(text[Len(text)])
ParseU32(text) ==
    IF Len(text) > 0 /\ \A i \in 1..Len(text) : text[i] \in Digits
    THEN Some(DecimalValue(text))
    ELSE None

\* MessageSeverity
SevError == "Error"
SevWarning == "Warning"
SevOther == "Other"

\* Regex::new: the patterns a project may configure.  A compiled pattern
\* (head)(tail)? matches one head token optionally followed by a tail token;
\* group 1 is the head, group 2 the tail.
RegexSeverity == "(error|Error|warning|ERR)(3)?"
RegexUnbalanced == "("
RegexNew(src) ==
    IF src = RegexSeverity
    THEN Some([heads |-> {"error", "Error", "warning", "ERR"}, tails |-> {"3"}])
    ELSE None

Span(a, b) == [start |-> a, end |-> b]

\* Regex::captures_iter: leftmost, non-overlapping matches from offset pos on
RECURSIVE CapturesFrom(_, _, _)
CapturesFrom(re, text, pos) ==
    IF pos >= Len(text) THEN <<>>
    ELSE IF text[pos + 1] \in re.heads
         THEN LET hasTail == pos + 1 < Len(text) /\ text[pos + 2] \in re.tails
                  end == IF hasTail THEN pos + 2 ELSE pos + 1
                  cap == << Some(Span(pos, end)),
                            Some(Span(pos, pos + 1)),
                            IF hasTail THEN Some(Span(pos + 1, pos + 2)) ELSE None >>
              IN  <<cap>> \o CapturesFrom(re, text, end)
         ELSE CapturesFrom(re, text, pos + 1)
CapturesIter(re, text) == CapturesFrom(re, text, 0)

\* Captures::get(group): None for a group that does not exist or did not match
CaptureGet(cap, group) ==
    IF group + 1 \in 1..Len(cap) THEN cap[group + 1] ELSE None

CompilerMessage(sev, ln, cl, fl, txt) ==
    [severity |-> sev, line |-> ln, col |-> cl, file |-> fl, content |-> txt]

\* the text of the severity-group capture, when the group is declared and matched
SeverityText(pm, cap, combined_output) ==
    IF IsSome(pm.severity_group)
    THEN LET ma == CaptureGet(cap, Unwrap(pm.severity_group)) IN
         IF IsSome(ma)
         THEN Some(Slice(combined_output, Unwrap(ma).start, Unwrap(ma).end))
         ELSE None
    ELSE None

\* severity_mapper.get(cap_text).unwrap() panics on a text without an entry
SeverityPanics(pm, cap, combined_output) ==
    LET cap_text == SeverityText(pm, cap, combined_output) IN
    /\ IsSome(cap_text)
    /\ IsSome(pm.severity_mapper)
    /\ Unwrap(cap_text) \notin DOMAIN Unwrap(pm.severity_mapper)

\* the severity of one capture (of a capture that does not panic)
SeverityOf(pm, cap, combined_output) ==
    LET cap_text == SeverityText(pm, cap, combined_output) IN
    IF IsSome(cap_text)
    THEN IF IsSome(pm.severity_mapper)
         THEN IF Unwrap(cap_text) \in DOMAIN Unwrap(pm.severity_mapper)
              THEN Some(Unwrap(pm.severity_mapper)[Unwrap(cap_text)])
              ELSE None
         ELSE CASE ToLowercase(Unwrap(cap_text)) = <<"error">> -> Some(SevError)
                [] ToLowercase(Unwrap(cap_text)) = <<"warning">> -> Some(SevWarning)
                [] OTHER -> None
    ELSE None

\* a numeric field (line, col) of one capture
NumberOf(group_opt, cap, combined_output) ==
    IF IsSome(group_opt)
    THEN LET ma == CaptureGet(cap, Unwrap(group_opt)) IN
         IF IsSome(ma)
         THEN ParseU32(Slice(combined_output, Unwrap(ma).start, Unwrap(ma).end))
         ELSE None
    ELSE None

FileOf(group_opt, cap, combined_output) ==
    IF IsSome(group_opt)
    THEN LET ma == CaptureGet(cap, Unwrap(group_opt)) IN
         IF IsSome(ma)
         THEN Some(Slice(combined_output, Unwrap(ma).start, Unwrap(ma).end))
         ELSE None
    ELSE None

\* a slip of the message end: the end of the match itself
MessageEnd_of_match(captures, i, combined_output) ==
    Unwrap(CaptureGet(captures[i + 1], 0)).end

\* the end offset of message i (0-based) among the captures
MessageEnd(captures, i, combined_output) ==
    IF i < Len(captures) - 1
    THEN Unwrap(CaptureGet(captures[i + 2], 0)).start
    ELSE Len(combined_output)

MatchedMessage(pm, captures, i, combined_output) ==
    LET capture == captures[i + 1]
        message_start == Unwrap(CaptureGet(capture, 0)).start
        message_end == MessageEnd(captures, i, combined_output)
    IN  CompilerMessage(SeverityOf(pm, capture, combined_output),
                        NumberOf(pm.line_group, capture, combined_output),
                        NumberOf(pm.col_group, capture, combined_output),
                        FileOf(pm.file_group, capture, combined_output),
                        Slice(combined_output, message_start, message_end))

\* Result<Vec<CompilerMessage>, Error>, or a panic of the calling thread
ResultOk(v) == [kind |-> "Ok", value |-> v]
ResultErr == [kind |-> "Err"]
ResultPanic == [kind |-> "Panic"]

\* a slip of read_compiler_messages without a matcher: stderr is put before stdout
read_compiler_messages_stderr_first(output, problem_matcher) ==
    LET stdout == FromUtf8(output.stdout)
        stderr == FromUtf8(output.stderr)
    IN
    IF ~IsSome(stdout) THEN ResultErr
    ELSE IF ~IsSome(stderr) THEN ResultErr
    ELSE LET combined_output == Unwrap(stderr) \o Unwrap(stdout) IN
         IF IsSome(problem_matcher)
         THEN LET pm == Unwrap(problem_matcher)
                  regex == RegexNew(pm.regex)
              IN
              IF ~IsSome(regex) THEN ResultErr
              ELSE LET captures == CapturesIter(Unwrap(regex), combined_output) IN
                   IF \E i \in 0..(Len(captures) - 1) :
                          SeverityPanics(pm, captures[i + 1], combined_output)
                   THEN ResultPanic
                   ELSE ResultOk([i \in 1..Len(captures) |->
                                     MatchedMessage(pm, captures, i - 1, combined_output)])
         ELSE ResultOk(<< CompilerMessage(None, None, None, None, combined_output) >>)

read_compiler_messages(output, problem_matcher) ==
    LET stdout == FromUtf8(output.stdout)
        stderr == FromUtf8(output.stderr)
    IN
    IF ~IsSome(stdout) THEN ResultErr
    ELSE IF ~IsSome(stderr) THEN ResultErr
    ELSE LET combined_output == Unwrap(stdout) \o Unwrap(stderr) IN
         IF IsSome(problem_matcher)
         THEN LET pm == Unwrap(problem_matcher)
                  regex == RegexNew(pm.regex)
              IN
              IF ~IsSome(regex) THEN ResultErr
              ELSE LET captures == CapturesIter(Unwrap(regex), combined_output) IN
                   IF \E i \in 0..(Len(captures) - 1) :
                          SeverityPanics(pm, captures[i + 1], combined_output)
                   THEN ResultPanic
                   ELSE ResultOk([i \in 1..Len(captures) |->
                                     MatchedMessage(pm, captures, i - 1, combined_output)])
         ELSE ResultOk(<< CompilerMessage(None, None, None, None, combined_output) >>)

\* a slip of unwrap_or_default: a placeholder diagnostic instead of no diagnostics
UnwrapOrPlaceholder(res) ==
    IF res.kind = "Ok" THEN res.value
    ELSE << CompilerMessage(None, None, None, None, <<"x">>) >>

\* Result::unwrap_or_default
UnwrapOrDefault(res) == IF res.kind = "Ok" THEN res.value ELSE <<>>

\* ------------------------------------------------------- usize and casts
\* A usize is 64 bits wide: four 16-bit limbs, most significant first.
Limb == 65536
\* `v as usize` of an i32 v: sign extension to 64 bits
AsUsize(v) ==
    IF v >= 0
    THEN << 0, 0, v \div Limb, v % Limb >>
    ELSE << Limb - 1, Limb - 1, (v \div Limb) % Limb, v % Limb >>
\* u < n for a usize u and a length n below 2^31
UsizeLess(u, n) == u[1] = 0 /\ u[2] = 0 /\ u[3] * Limb + u[4] < n
\* u = k for a usize u and a number 0 <= k < 2^31
UsizeIs(u, k) == u = << 0, 0, k \div Limb, k % Limb >>

\* ------------------------------------------------------------ environment
\* what the child process may write and how it may end
Output(out, err) == [stdout |-> out, stderr |-> err]
Outputs ==
    { Output(<<>>, <<>>),
      Output(<<"x", "warning", "3">>, <<"Error", "x">>),
      Output(<<BAD>>, <<"error">>),
      Output(<<"x">>, <<BAD>>) }
\* ExitStatus::code(): None when the process was ended by a signal
ExitCodes == { Some(0), Some(1), None }

\* default_severity_mapper
SeverityMapper ==
    [t \in { <<"error">>, <<"warning">> } |->
        IF t = <<"error">> THEN SevError ELSE SevWarning]

ProblemMatcher(re, fg, lg, cg, sg, sm) ==
    [regex |-> re, file_group |-> fg, line_group |-> lg, col_group |-> cg,
     severity_group |-> sg, severity_mapper |-> sm]
CommandConfig == [working_dir |-> "./", command |-> "make", args |-> <<>>]
Project(cmd, pm) == [build_cmd |-> cmd, problem_matcher |-> pm]

\* the conswol.toml files load_project may read
Projects ==
    { Project(None, None),
      Project(Some(CommandConfig), None),
      Project(Some(CommandConfig),
              Some(ProblemMatcher(RegexSeverity, None, Some(2), None, Some(1), None))),
      Project(Some(CommandConfig),
              Some(ProblemMatcher(RegexSeverity, None, None, None, Some(1),
                                  Some(SeverityMapper)))),
      Project(Some(CommandConfig),
              Some(ProblemMatcher(RegexUnbalanced, None, None, None, None, None))) }

Keys == { "CtrlC", "CtrlB", "Up", "Down", "Other" }

\* ------------------------------------------------------------------ state
VARIABLES
    project,             \* main_state.project
    build_state,         \* main_state.build_state
    selected_message,    \* main_state.selected_message : Option<usize>
    builder_rx,          \* Option<Receiver<BuildState>>: the executor it listens to
    debug_message,
    key_rx,              \* keys sent by the key listener, not yet received
    last_selection_idx,  \* i32 cursor counter
    pc,                  \* position of the main loop
    execs                \* the executor threads and their channels

vars == << project, build_state, selected_message, builder_rx, debug_message,
           key_rx, last_selection_idx, pc, execs >>

ExecIds == 1..MaxExecs

\* no thread, no channel
FreeExec ==
    [pc |-> "free", chan |-> <<>>, rx_alive |-> FALSE, sent |-> <<>>]

ThreadEnded(e) == e.pc \in {"free", "done", "panicked"}
\* the sender lives in the thread's closure and is dropped when the thread ends
TxAlive(e) == ~ThreadEnded(e)
\* a slot whose thread has ended and whose receiver is dropped holds nothing
Reusable(e) == ThreadEnded(e) /\ ~e.rx_alive

Init ==
    /\ project \in Projects
    /\ build_state = NoBuild
    /\ selected_message = None
    /\ builder_rx = None
    /\ debug_message = ""
    /\ key_rx = <<>>
    /\ last_selection_idx = 0
    /\ pc = "render"
    /\ execs = [i \in ExecIds |-> FreeExec]

\* ----------------------------------------------------------- key listener
CountKey(k) == Cardinality({ i \in 1..Len(key_rx) : key_rx[i] = k })
Occupied == Cardinality({ i \in ExecIds : ~Reusable(execs[i]) })

\* spawn_key_listener: key_tx.send(key) for each key read from stdin.
\* The guards keep the executors and the cursor counter within the bounds.
KeyPress(k) ==
    /\ pc # "done"
    /\ Len(key_rx) < MaxQueue
    /\ k = "CtrlB" => Occupied + CountKey("CtrlB") < MaxExecs
    /\ k = "Up" => last_selection_idx - CountKey("Up") - 1 >= -MaxCursor
    /\ k = "Down" => last_selection_idx + CountKey("Down") + 1 <= MaxCursor
    /\ key_rx' = Append(key_rx, k)
    /\ UNCHANGED << project, build_state, selected_message, builder_rx,
                    debug_message, last_selection_idx, pc, execs >>

\* ------------------------------------------------------- build requests
\* mpsc::channel() and thread::spawn of execute_build_cmd in slot i
execute_build_cmd(ex, i) ==
    [ex EXCEPT ![i] = [pc |-> "send_in_progress", chan |-> <<>>, rx_alive |-> TRUE,
                       sent |-> <<>>]]

FreshSlot(ex) ==
    CHOOSE i \in ExecIds : Reusable(ex[i]) /\ \A j \in 1..(i - 1) : ~Reusable(ex[j])

\* a slip of handle_build_request: the InProgress arm is missing
handle_build_request_always(proj, bs, ex) ==
    IF IsSome(proj.build_cmd)
    THEN LET i == FreshSlot(ex) IN
         [rx |-> Some(i), execs |-> execute_build_cmd(ex, i)]
    ELSE [rx |-> None, execs |-> ex]

\* a slip of handle_build_request: the build_cmd of the project is not looked at
handle_build_request_no_cmd(proj, bs, ex) ==
    IF bs.tag = "InProgress"
    THEN [rx |-> None, execs |-> ex]
    ELSE LET i == FreshSlot(ex) IN
         [rx |-> Some(i), execs |-> execute_build_cmd(ex, i)]

\* handle_build_request: the receiver it returns and the executors after it
handle_build_request(proj, bs, ex) ==
    IF IsSome(proj.build_cmd)
    THEN IF bs.tag = "InProgress"
         THEN [rx |-> None, execs |-> ex]
         ELSE LET i == FreshSlot(ex) IN
              [rx |-> Some(i), execs |-> execute_build_cmd(ex, i)]
    ELSE [rx |-> None, execs |-> ex]

\* a slip of the receiver's drop: the old channel stays connected
DropReceiver_keep(ex, rx) == ex

\* a channel is freed once its thread has ended and its receiver is dropped
Release(e) == IF Reusable(e) THEN FreeExec ELSE e

\* dropping a Receiver disconnects its channel and discards what it buffered
DropReceiver(ex, rx) ==
    IF IsSome(rx)
    THEN [ex EXCEPT ![Unwrap(rx)] = Release([@ EXCEPT !.rx_alive = FALSE, !.chan = <<>>])]
    ELSE ex

\* -------------------------------------------------------------- main loop
\* terminal.draw(..): the renderer is handed build_state and selected_message
Render ==
    /\ pc = "render"
    /\ pc' = "keys"
    /\ UNCHANGED << project, build_state, selected_message, builder_rx,
                    debug_message, key_rx, last_selection_idx, execs >>

NextKey(k) == pc = "keys" /\ Len(key_rx) > 0 /\ Head(key_rx) = k

\* Key::Ctrl('c') => break 'mainloop; main returns and the process exits
KeyCtrlC ==
    /\ NextKey("CtrlC")
    /\ key_rx' = Tail(key_rx)
    /\ pc' = "done"
    /\ UNCHANGED << project, build_state, selected_message, builder_rx,
                    debug_message, last_selection_idx, execs >>

\* Key::Ctrl('b') => builder_rx = handle_build_request(&main_state);
\* the assignment drops the receiver builder_rx held before
KeyCtrlB ==
    /\ NextKey("CtrlB")
    /\ key_rx' = Tail(key_rx)
    /\ debug_message' = "Ctrl+b was pressed...."
    /\ LET r == handle_build_request(project, build_state, execs) IN
       /\ builder_rx' = r.rx
       /\ execs' = DropReceiver(r.execs, builder_rx)
    /\ UNCHANGED << project, build_state, selected_message, last_selection_idx, pc >>

KeyUp ==
    /\ NextKey("Up")
    /\ key_rx' = Tail(key_rx)
    /\ last_selection_idx' = last_selection_idx - 1
    /\ UNCHANGED << project, build_state, selected_message, builder_rx,
                    debug_message, pc, execs >>

KeyDown ==
    /\ NextKey("Down")
    /\ key_rx' = Tail(key_rx)
    /\ last_selection_idx' = last_selection_idx + 1
    /\ UNCHANGED << project, build_state, selected_message, builder_rx,
                    debug_message, pc, execs >>

KeyOther ==
    /\ NextKey("Other")
    /\ key_rx' = Tail(key_rx)
    /\ UNCHANGED << project, build_state, selected_message, builder_rx,
                    debug_message, last_selection_idx, pc, execs >>

\* key_rx.try_recv() finds no key: the while loop ends
KeysDrained ==
    /\ pc = "keys"
    /\ Len(key_rx) = 0
    /\ pc' = "select"
    /\ UNCHANGED << project, build_state, selected_message, builder_rx,
                    debug_message, key_rx, last_selection_idx, execs >>

\* the wrap of the cursor counter against num_messages > 0
WrapSelection(idx, num_messages) ==
    IF idx < 0 THEN num_messages + idx ELSE idx % num_messages

\* a slip of the recomputation: the cursor counter is reset with an empty list
Select_reset ==
    /\ pc = "select"
    /\ pc' = "recv"
    /\ IF build_state.tag = "Finished" /\ Len(build_state.results.messages) > 0
       THEN LET num_messages == Len(build_state.results.messages) IN
            /\ last_selection_idx' = WrapSelection(last_selection_idx, num_messages)
            /\ selected_message' = Some(AsUsize(last_selection_idx'))
       ELSE /\ selected_message' = None
            /\ last_selection_idx' = 0
    /\ UNCHANGED << project, build_state, builder_rx, debug_message, key_rx, execs >>

\* the recomputation of selected_message after the keys
Select ==
    /\ pc = "select"
    /\ pc' = "recv"
    /\ IF build_state.tag = "Finished"
       THEN LET num_messages == Len(build_state.results.messages) IN
            IF num_messages = 0
            THEN /\ selected_message' = None
                 /\ UNCHANGED last_selection_idx
            ELSE /\ last_selection_idx' = WrapSelection(last_selection_idx, num_messages)
                 /\ selected_message' = Some(AsUsize(last_selection_idx'))
       ELSE UNCHANGED << selected_message, last_selection_idx >>
    /\ UNCHANGED << project, build_state, builder_rx, debug_message, key_rx, execs >>

\* builder_rx is None: nothing to receive
RecvSkip ==
    /\ pc = "recv"
    /\ ~IsSome(builder_rx)
    /\ pc' = "render"
    /\ UNCHANGED << project, build_state, selected_message, builder_rx,
                    debug_message, key_rx, last_selection_idx, execs >>

\* builder_rx_val.recv() returns Ok(build_state); recv blocks until then
RecvOk ==
    /\ pc = "recv"
    /\ IsSome(builder_rx)
    /\ LET i == Unwrap(builder_rx) IN
       /\ Len(execs[i].chan) > 0
       /\ build_state' = Head(execs[i].chan)
       /\ execs' = [execs EXCEPT ![i].chan = Tail(@)]
    /\ pc' = "render"
    /\ UNCHANGED << project, selected_message, builder_rx, debug_message, key_rx,
                    last_selection_idx >>

\* a slip of the Err arm: the closed channel ends the loop
RecvErr_break ==
    /\ pc = "recv"
    /\ IsSome(builder_rx)
    /\ LET i == Unwrap(builder_rx) IN
       /\ Len(execs[i].chan) = 0
       /\ ~TxAlive(execs[i])
    /\ builder_rx' = None
    /\ execs' = DropReceiver(execs, builder_rx)
    /\ pc' = "done"
    /\ UNCHANGED << project, build_state, selected_message, debug_message, key_rx,
                    last_selection_idx >>

\* builder_rx_val.recv() returns Err: the channel is empty and its sender dropped
RecvErr ==
    /\ pc = "recv"
    /\ IsSome(builder_rx)
    /\ LET i == Unwrap(builder_rx) IN
       /\ Len(execs[i].chan) = 0
       /\ ~TxAlive(execs[i])
    /\ builder_rx' = None
    /\ execs' = DropReceiver(execs, builder_rx)
    /\ pc' = "render"
    /\ UNCHANGED << project, build_state, selected_message, debug_message, key_rx,
                    last_selection_idx >>

\* ------------------------------------------------------- executor threads
\* the thread's closure returns or unwinds: its Sender is dropped
EndThread(e, end_pc) == Release([e EXCEPT !.pc = end_pc])

\* tx.send(bs).unwrap(): the thread panics when the receiver is dropped
Send(e, bs, next_pc) ==
    IF e.rx_alive
    THEN [e EXCEPT !.chan = Append(@, bs), !.sent = Append(@, bs.tag), !.pc = next_pc]
    ELSE EndThread(e, "panicked")

\* tx.send(BuildState::InProgress).unwrap()
ExecSendInProgress(i) ==
    /\ pc # "done"
    /\ execs[i].pc = "send_in_progress"
    /\ execs' = [execs EXCEPT ![i] = Send(@, InProgress, "command")]
    /\ UNCHANGED << project, build_state, selected_message, builder_rx,
                    debug_message, key_rx, last_selection_idx, pc >>

\* command_res
CmdErr == [kind |-> "Err"]
CmdOk(out, code) == [kind |-> "Ok", output |-> out, code |-> code]

\* match command_res { Ok(output) => .., Err(_) => .. }, to the end of the thread
MatchResult(e, command_res, problem_matcher) ==
    IF command_res.kind = "Ok"
    THEN LET res == read_compiler_messages(command_res.output, problem_matcher)
             messages == UnwrapOrDefault(res)
         IN
         IF res.kind = "Panic" THEN EndThread(e, "panicked")
         ELSE IF ~IsSome(command_res.code) THEN EndThread(e, "panicked")
         ELSE Send(e, Finished(BuildResults(Unwrap(command_res.code), messages)), "done")
    ELSE Send(e, InvocationFailed, "done")

\* Command::new(..).output() fails to spawn the process: Err(_)
ExecSpawnFails(i) ==
    /\ pc # "done"
    /\ execs[i].pc = "command"
    /\ execs' = [execs EXCEPT ![i] = MatchResult(@, CmdErr, project.problem_matcher)]
    /\ UNCHANGED << project, build_state, selected_message, builder_rx,
                    debug_message, key_rx, last_selection_idx, pc >>

\* Command::new(..).output() spawns the process and waits for it
ExecSpawn(i) ==
    /\ pc # "done"
    /\ execs[i].pc = "command"
    /\ execs' = [execs EXCEPT ![i].pc = "running"]
    /\ UNCHANGED << project, build_state, selected_message, builder_rx,
                    debug_message, key_rx, last_selection_idx, pc >>

\* the child process ends: output() returns Ok(output) and the thread runs on
\* to its send
ChildExit(i) ==
    /\ pc # "done"
    /\ execs[i].pc = "running"
    /\ \E out \in Outputs, code \in ExitCodes :
          execs' = [execs EXCEPT ![i] = MatchResult(@, CmdOk(out, code),
                                                    project.problem_matcher)]
    /\ UNCHANGED << project, build_state, selected_message, builder_rx,
                    debug_message, key_rx, last_selection_idx, pc >>

\* ----------------------------------------------------------- specification
MainStep ==
    \/ Render
    \/ KeyCtrlC
    \/ KeyCtrlB
    \/ KeyUp
    \/ KeyDown
    \/ KeyOther
    \/ KeysDrained
    \/ Select
    \/ RecvSkip
    \/ RecvOk
    \/ RecvErr

ExecStep(i) ==
    \/ ExecSendInProgress(i)
    \/ ExecSpawnFails(i)
    \/ ExecSpawn(i)

Next ==
    \/ \E k \in Keys : KeyPress(k)
    \/ MainStep
    \/ \E i \in ExecIds : ExecStep(i)
    \/ \E i \in ExecIds : ChildExit(i)

Spec == Init /\ [][Next]_vars

\* The loop and the executor threads are scheduled; keys arrive when the user
\* presses them and a child process may run forever (there is no timeout).
FairSpec ==
    /\ Spec
    /\ WF_vars(MainStep)
    /\ \A i \in ExecIds : WF_vars(ExecStep(i))

\* ------------------------------------------------------------- properties
Last(q) == q[Len(q)]
Running == { i \in ExecIds : ~ThreadEnded(execs[i]) }
\* the diagnostic list implied by a BuildState
MessagesOf(bs) == IF bs.tag = "Finished" THEN bs.results.messages ELSE <<>>
\* the captured output is not valid text, or the configured pattern does not compile
ExtractionFails(out) ==
    \/ \E i \in 1..Len(out.stdout) : out.stdout[i] = BAD
    \/ \E i \in 1..Len(out.stderr) : out.stderr[i] = BAD
    \/ /\ IsSome(project.problem_matcher)
       /\ ~IsSome(RegexNew(Unwrap(project.problem_matcher).regex))
ExtractionPanics(out) == read_compiler_messages(out, project.problem_matcher).kind = "Panic"

\* C1: a trigger-build key handled while build_state is InProgress starts no
\* executor thread and leaves build_state as it is (InProgress).
C1_RejectedWhileInProgress ==
    [][ (KeyCtrlB /\ build_state.tag = "InProgress")
        => /\ build_state' = build_state
           /\ build_state'.tag = "InProgress"
           /\ \A i \in ExecIds : ThreadEnded(execs[i]) => ThreadEnded(execs'[i]) ]_vars

\* a build request was rejected: the only executor runs on without a receiver
\* while build_state stays InProgress
C1_Witness ==
    /\ build_state.tag = "InProgress"
    /\ builder_rx = None
    /\ debug_message # ""
    /\ Occupied = 1
    /\ \E i \in ExecIds : execs[i].pc = "running" /\ ~execs[i].rx_alive

\* C2: at most one executor thread started by the loop is in flight.
C2_AtMostOneInFlight == Cardinality(Running) <= 1

\* C3: as long as the loop keeps cycling, once build_state is InProgress and
\* every executor has ended (its child terminated or failed to spawn),
\* build_state becomes InvocationFailed or Finished.
C3_AttemptReachesTerminal ==
    ([]<>(pc = "render"))
        => ((build_state.tag = "InProgress" /\ Running = {}) ~> IsTerminal(build_state))

\* C4: a key waiting in key_rx is received by the loop whatever the
\* outstanding build does.
C4_KeyEventuallyHandled ==
    (Len(key_rx) > 0) ~> (Len(key_rx) = 0 \/ pc = "done")

\* C5: when recv finds the channel closed while build_state is InProgress,
\* the loop sets build_state to InvocationFailed.
C5_ClosedChannelFails ==
    [][ (RecvErr /\ build_state.tag = "InProgress")
        => build_state'.tag = "InvocationFailed" ]_vars

\* C6: at every render selected_message is None when the diagnostic list of
\* build_state is empty, and an index below its length otherwise.
C6_SelectionValidAtRender ==
    pc = "render" =>
        LET n == Len(MessagesOf(build_state)) IN
        IF n = 0 THEN selected_message = None
        ELSE IsSome(selected_message) /\ UsizeLess(Unwrap(selected_message), n)

\* C7: with n > 0 messages the recomputation sets selected_message to the
\* floored modulo of the cursor counter by n.
C7_SelectionIsFlooredModulo ==
    [][ (Select /\ Len(MessagesOf(build_state)) > 0)
        => /\ IsSome(selected_message')
           /\ UsizeIs(Unwrap(selected_message'),
                      last_selection_idx % Len(MessagesOf(build_state))) ]_vars

\* C8: an executor sends InProgress and then exactly one terminal state:
\* InvocationFailed when the spawn fails, Finished when the child completed.
C8_ExecutorSequence ==
    [][ \A i \in ExecIds :
          /\ ExecSpawnFails(i) => execs'[i].sent = << "InProgress", "InvocationFailed" >>
          /\ ChildExit(i) => execs'[i].sent = << "InProgress", "Finished" >> ]_vars

\* executor i leaves output() in this step
ChildExitStep(i) ==
    /\ pc # "done"
    /\ execs[i].pc = "running"
    /\ execs'[i].pc # "running"

\* the step of executor i is the one for this output and exit status
ChildExitWith(i, out, code) ==
    execs' = [execs EXCEPT ![i] = MatchResult(@, CmdOk(out, code), project.problem_matcher)]

\* C9: a child that ends without an exit code still makes the executor send
\* Finished (the thread does not panic).
C9_NoExitCodeStillFinished ==
    [][ \A i \in ExecIds : (ChildExitStep(i) /\ execs[i].rx_alive) =>
          \A out \in Outputs :
             (~ExtractionPanics(out) /\ ChildExitWith(i, out, None))
             => /\ execs'[i].pc = "done"
                /\ Len(execs'[i].chan) > 0
                /\ Last(execs'[i].chan).tag = "Finished" ]_vars

C11_OnlyQuitEndsLoop ==
    [][ (pc # "done" /\ pc' = "done")
        => /\ pc = "keys"
           /\ Len(key_rx) > 0
           /\ Head(key_rx) = "CtrlC" ]_vars

\* the loop went on after an executor thread panicked and its channel was
\* found closed, and ended on the quit key
C11_Witness ==
    /\ pc = "done"
    /\ build_state.tag = "InProgress"
    /\ builder_rx = None
    /\ \A i \in ExecIds : execs[i].pc = "free"

\* C12: without a build command no executor is ever started and build_state
\* stays NoBuild, whatever keys arrive.
C12_NoBuildCommandIgnored ==
    ~IsSome(project.build_cmd)
        => /\ build_state = NoBuild
           /\ builder_rx = None
           /\ \A i \in ExecIds : execs[i] = FreeExec

\* a build request was handled in a project without a build command
C12_Witness ==
    /\ ~IsSome(project.build_cmd)
    /\ debug_message = "Ctrl+b was pressed...."
    /\ build_state = NoBuild

\* the captured output is valid text
ValidText(out) ==
    /\ \A i \in 1..Len(out.stdout) : out.stdout[i] # BAD
    /\ \A i \in 1..Len(out.stderr) : out.stderr[i] # BAD
\* stdout followed by stderr
Combined(out) == out.stdout \o out.stderr
\* the project has a matcher whose pattern compiles
HasMatcher ==
    /\ IsSome(project.problem_matcher)
    /\ IsSome(RegexNew(Unwrap(project.problem_matcher).regex))
\* the start offsets of the matches of the pattern in a text (a match starts
\* at each head token: no head token is a tail token)
MatchStarts(text) ==
    { o \in 0..(Len(text) - 1) :
        text[o + 1] \in Unwrap(RegexNew(Unwrap(project.problem_matcher).regex)).heads }
\* o_k, the k-th smallest (from 0) of a set of offsets
Offset(starts, k) == CHOOSE o \in starts : Cardinality({ q \in starts : q < o }) = k
\* the end of the content of match k: the next match start, or the end of the text
ContentEnd(starts, k, text) ==
    IF k < Cardinality(starts) - 1 THEN Offset(starts, k + 1) ELSE Len(text)
\* the messages are the slices of the text between consecutive match starts
SlicedAtMatches(messages, text) ==
    LET starts == MatchStarts(text) IN
    /\ Len(messages) = Cardinality(starts)
    /\ \A k \in 0..(Len(messages) - 1) :
          messages[k + 1].content = Slice(text, Offset(starts, k), ContentEnd(starts, k, text))
\* the step of executor i sends Finished
SendsFinished(i) ==
    /\ execs'[i].pc = "done"
    /\ Len(execs'[i].chan) > 0
    /\ Last(execs'[i].chan).tag = "Finished"

\* C13: with a matcher whose pattern matches the combined output at offsets
\* o_0 < .. < o_(n-1), the diagnostics of the Finished the executor sends are,
\* in order, the slices input[o_i : o_(i+1)] and input[o_(n-1) : len(input)].
C13_ContentBetweenMatchStarts ==
    [][ \A i \in ExecIds : (ChildExitStep(i) /\ HasMatcher /\ SendsFinished(i)) =>
          \A out \in Outputs, code \in ExitCodes :
             (ValidText(out) /\ ChildExitWith(i, out, code))
             => SlicedAtMatches(Last(execs'[i].chan).results.messages, Combined(out)) ]_vars

\* a Finished with the two slices of "x warning 3 Error x" is in flight
C13_Witness ==
    /\ HasMatcher
    /\ \E i \in ExecIds :
          /\ execs[i].pc = "done"
          /\ Len(execs[i].chan) > 0
          /\ Last(execs[i].chan).tag = "Finished"
          /\ LET messages == Last(execs[i].chan).results.messages IN
             /\ Len(messages) = 2
             /\ messages[1].content = << "warning", "3" >>
             /\ messages[2].content = << "Error", "x" >>

\* the texts of the severity-group captures the mapper has no entry for
UnmappedStarts(text) ==
    { o \in MatchStarts(text) :
        << text[o + 1] >> \notin DOMAIN Unwrap(Unwrap(project.problem_matcher).severity_mapper) }

\* C14: with a severity mapper, a severity capture without a mapper entry
\* yields a diagnostic with absent severity; the other matches are extracted
\* and the build ends in Finished.
C14_UnmappedSeverityIsAbsent ==
    [][ \A i \in ExecIds :
          ( /\ ChildExitStep(i)
            /\ execs[i].rx_alive
            /\ HasMatcher
            /\ Unwrap(project.problem_matcher).severity_group = Some(1)
            /\ IsSome(Unwrap(project.problem_matcher).severity_mapper) ) =>
          \A out \in Outputs, code \in {0, 1} :
             ( /\ ValidText(out)
               /\ UnmappedStarts(Combined(out)) # {}
               /\ ChildExitWith(i, out, Some(code)) )
             => /\ SendsFinished(i)
                /\ LET messages == Last(execs'[i].chan).results.messages
                       starts == MatchStarts(Combined(out))
                   IN  /\ Len(messages) = Cardinality(starts)
                       /\ \A k \in 0..(Len(messages) - 1) :
                             Offset(starts, k) \in UnmappedStarts(Combined(out))
                                => messages[k + 1].severity = None ]_vars

\* C15 as claimed: without a matcher, whatever the child wrote, Finished has
\* exactly one diagnostic: the whole of stdout followed by stderr, no other field.
C15_WholeOutputAnyBytes ==
    [][ \A i \in ExecIds :
          (ChildExitStep(i) /\ execs[i].rx_alive /\ ~IsSome(project.problem_matcher)) =>
          \A out \in Outputs, code \in {0, 1} :
             ChildExitWith(i, out, Some(code))
             => /\ SendsFinished(i)
                /\ Last(execs'[i].chan).results.messages
                      = << CompilerMessage(None, None, None, None, Combined(out)) >> ]_vars

\* C15 amended: the same for captured outputs that are valid UTF-8.
C15_WholeOutputValidText ==
    [][ \A i \in ExecIds :
          (ChildExitStep(i) /\ execs[i].rx_alive /\ ~IsSome(project.problem_matcher)) =>
          \A out \in Outputs, code \in {0, 1} :
             (ValidText(out) /\ ChildExitWith(i, out, Some(code)))
             => /\ SendsFinished(i)
                /\ Last(execs'[i].chan).results.messages
                      = << CompilerMessage(None, None, None, None, Combined(out)) >> ]_vars

\* without a matcher, a Finished whose only diagnostic holds what the child
\* wrote to stdout and then to stderr is in flight
C15_Witness ==
    /\ ~IsSome(project.problem_matcher)
    /\ \E i \in ExecIds :
          /\ execs[i].pc = "done"
          /\ Len(execs[i].chan) > 0
          /\ Last(execs[i].chan).tag = "Finished"
          /\ Last(execs[i].chan).results.messages =
                << CompilerMessage(None, None, None, None,
                                   << "x", "warning", "3", "Error", "x" >>) >>

\* the lifecycle of BuildState: a build starts from NoBuild or a terminal
\* state, and InProgress ends in a terminal state
Lifecycle(from, to) ==
    \/ from \in {"NoBuild", "InvocationFailed", "Finished"} /\ to = "InProgress"
    \/ from = "InProgress" /\ to \in {"InvocationFailed", "Finished"}

\* C16: every step that assigns build_state follows the lifecycle: no
\* InProgress to InProgress, no terminal to terminal, nothing back to NoBuild.
C16_LifecycleTransitions ==
    [][ (RecvOk \/ build_state' # build_state)
        => Lifecycle(build_state.tag, build_state'.tag) ]_vars

\* a Finished with diagnostics was followed by the InProgress of a new attempt,
\* which the loop is still listening to
C16_Witness ==
    /\ build_state.tag = "InProgress"
    /\ IsSome(selected_message)
    /\ IsSome(builder_rx)

\* C17: the loop's build_state is InProgress when an executor issues the
\* call of the child process.
C17_InProgressBeforeProcessCall ==
    [][ \A i \in ExecIds :
          (ExecSpawn(i) \/ ExecSpawnFails(i)) => build_state.tag = "InProgress" ]_vars

\* C18: an accepted request starts its executor on a fresh channel and
\* disconnects every earlier one; builder_rx is only ever set to the executor
\* just started, and build_state is assigned only from the channel of
\* builder_rx, the one receiver that is connected.
C18_OnlyLatestAttemptAbsorbed ==
    [][ /\ \A j \in ExecIds :
              (ThreadEnded(execs[j]) /\ ~ThreadEnded(execs'[j]))
              => /\ builder_rx' = Some(j)
                 /\ execs[j] = FreeExec
                 /\ execs'[j].chan = <<>>
                 /\ \A k \in ExecIds \ {j} : ~execs'[k].rx_alive /\ execs'[k].chan = <<>>
        /\ (IsSome(builder_rx') /\ builder_rx' # builder_rx)
              => ThreadEnded(execs[Unwrap(builder_rx')])
        /\ build_state' # build_state
              => /\ IsSome(builder_rx)
                 /\ Len(execs[Unwrap(builder_rx)].chan) > 0
                 /\ build_state' = Head(execs[Unwrap(builder_rx)].chan)
                 /\ \A k \in ExecIds \ {Unwrap(builder_rx)} : ~execs[k].rx_alive ]_vars

\* the loop absorbed the InProgress of a newer attempt while the child of an
\* earlier, abandoned attempt is still running
C18_Witness ==
    \E i, j \in ExecIds :
        /\ i # j
        /\ execs[i].pc = "running"
        /\ ~execs[i].rx_alive
        /\ builder_rx = Some(j)
        /\ execs[j].sent = << "InProgress" >>
        /\ execs[j].chan = <<>>
        /\ build_state.tag = "InProgress"

\* C19: with an empty diagnostic list the recomputation leaves the cursor
\* counter as it is; an up or down key changes the counter by -1 or +1 and
\* neither build_state nor the outstanding build.
C19_CursorCounterFrame ==
    [][ /\ (Select /\ Len(MessagesOf(build_state)) = 0)
              => last_selection_idx' = last_selection_idx
        /\ KeyUp => /\ last_selection_idx' = last_selection_idx - 1
                    /\ UNCHANGED << build_state, builder_rx, execs >>
        /\ KeyDown => /\ last_selection_idx' = last_selection_idx + 1
                      /\ UNCHANGED << build_state, builder_rx, execs >>
        /\ last_selection_idx' # last_selection_idx
              => (KeyUp \/ KeyDown \/ Len(MessagesOf(build_state)) > 0) ]_vars

\* a counter moved below zero by up keys went through a recomputation with
\* an empty list
C19_Witness ==
    /\ pc = "recv"
    /\ Len(MessagesOf(build_state)) = 0
    /\ last_selection_idx = -2

\* C20: whenever an executor reaches a send, the loop holds the receiver of
\* its channel.
C20_SendsSucceed ==
    [][ \A i \in ExecIds :
          (ExecSendInProgress(i) \/ ExecSpawnFails(i) \/ ChildExit(i))
          => execs[i].rx_alive ]_vars

====
